---- MODULE Spec2Model ----
(***************************************************************************)
(* hackerrun: the provision (init) and deploy choreographies of            *)
(* src/lib/init.js and src/lib/deploy.js, run from the CLI wrapper of      *)
(* src/bin/hackerrun.js, over the docker context store driven by           *)
(* src/lib/docker-context.js and the SSH session of src/lib/ssh.js.        *)
(*                                                                         *)
(* One invocation of the CLI runs at a time.  Every remote command, every  *)
(* docker CLI command and every SSH handshake is an environment step that  *)
(* may fail; the code's try/catch blocks decide what a failure leads to.   *)
(* Local file writes (config.json, .hackerrun.json, .env) are taken to     *)
(* succeed.  Strings the code computes character by character (the host    *)
(* address, the context name) are sequences of one-character strings.      *)
(*                                                                         *)
(* Spec is the two choreographies with the compose document abstracted to  *)
(* whether it parses.  SpecAddress is the address prompt of init over      *)
(* everything that can be typed.  SpecCompose is ComposeManager of         *)
(* src/lib/compose.js over parsed documents, called directly and by the    *)
(* transform block of deploy.  SpecArchive is createTarArchive's filter.   *)
(***************************************************************************)
EXTENDS Integers, Sequences, FiniteSets, TLC

VARIABLES
    cmd,              \* "none" | "init" | "deploy": the CLI command in progress
    pc,               \* position inside initCommand / deployCommand
    runs,             \* number of CLI invocations started so far
    exitStatus,       \* -1 while running or idle, else the process exit status
    log,              \* remote / engine calls made by the current invocation
    configVpsIp,      \* ~/.hackerrun/config.json: vpsIp (NoIp when unset)
    projectConfig,    \* .hackerrun.json: <<>> when absent, else <<record>>
    projectWrites,    \* how many times .hackerrun.json has been written
    contexts,         \* docker context store: the set of context names
    currentContext,   \* docker's currently selected context
    composeFile,      \* ./docker-compose.yml: "missing" | "unparsable" | "noservices" | "ok"
    envFiles,         \* names in the project directory that start with ".env"
    vpsIp,            \* local: host address of this invocation
    selectedEnvFile,  \* local of deployCommand
    selectedService,  \* local of deployCommand
    customPort,       \* local of deployCommand
    domain,           \* local of deployCommand
    originalContext,  \* local: context to switch back to
    dockerInstalled,  \* local of initCommand
    session,          \* the SSHClient of this invocation: "none" | "open" | "closed"
    traefikConfig,    \* local of deployCommand: "unread" | "empty" | "present"
    cmdIdx,           \* index of the next remote command inside a multi-command step
    composeData,      \* local of deployCommand: the parsed docker-compose.yml
    hackerrunComposeData, \* local of deployCommand: the document being transformed
    services,         \* local of deployCommand: what getServices returned or threw
    calls,            \* ComposeManager calls applied to hackerrunComposeData so far
    hackerrunComposeFile, \* docker-compose.hackerrun.yml as this deploy saved it
    gitignore,        \* createTarArchive: the lines of the ignore file
    outputPath,       \* createTarArchive: file name of the archive being written
    archive,          \* createTarArchive: what the filter answered for each path
    keyFiles,         \* SSHClient: the private key files readable under ~/.ssh
    agent,            \* SSHClient: SSH_AUTH_SOCK, "unset" | "set"
    authorized,       \* SSHClient: the credentials the host accepts
    promise           \* SSHClient: the last call, and how its promise was settled

persistent == <<configVpsIp, projectConfig, projectWrites, contexts, currentContext, composeFile, envFiles>>
locals == <<vpsIp, selectedEnvFile, selectedService, customPort, domain,
            originalContext, dockerInstalled, session, traefikConfig, cmdIdx>>
documents == <<composeData, hackerrunComposeData, services, calls, hackerrunComposeFile>>
archiving == <<gitignore, outputPath, archive>>
channel == <<keyFiles, agent, authorized, promise>>
detached == <<documents, archiving, channel>>
vars == <<cmd, pc, runs, exitStatus, log, persistent, locals, detached>>

(***************************************************************************)
(* Bounds and input sets                                                   *)
(***************************************************************************)
MaxRuns == 3

NoIp == <<>>
Undefined == "undefined"
Null == "null"
Hosts == { <<"1", ".", "2", ".", "3", ".", "4">>, <<"5", ".", "6", ".", "7", ".", "8">> }
Services == {"web", "db"}
Ports == {"80", "8080"}
EnvFileNames == {".env", ".env.prod"}

\* what can be typed at the address prompt: every string over AddressChars of
\* at most MaxAddressLen characters
MaxAddressLen == 9
AddressChars == {"1", "9", "."}
AddressInputs == UNION {[1..n -> AddressChars] : n \in 0..MaxAddressLen}

(***************************************************************************)
(* Strings                                                                 *)
(***************************************************************************)
RECURSIVE Str(_)
Str(s) == IF s = <<>> THEN "" ELSE Head(s) \o Str(Tail(s))

\* vpsIp.replace(/\./g, '-')
ReplaceDots(s) == [i \in 1..Len(s) |-> IF s[i] = "." THEN "-" ELSE s[i]]

\* mutant: the address goes into the name as typed
ContextNameKeepsDots(ip) == "hackerrun-" \o Str(ip)

\* `hackerrun-${vpsIp.replace(/\./g, '-')}`
ContextName(ip) == "hackerrun-" \o Str(ReplaceDots(ip))

\* mutant: the domain names the host only
DomainOfHost(service, ip) == Str(ip) \o ".sslip.io"

\* `${selectedService}.${vpsIp}.sslip.io`
Domain(service, ip) == service \o "." \o Str(ip) \o ".sslip.io"

\* [0-9]
Digits == {"0", "1", "2", "3", "4", "5", "6", "7", "8", "9"}

\* /^(?:[0-9]{1,3}\.){3}[0-9]{1,3}$/.test(input): three groups of one to three
\* digits each followed by a dot, then one to three digits, and nothing else
IpRegexTest(input) ==
    \E a \in 1..3, b \in 1..3, c \in 1..3, d \in 1..3 :
        LET dots == {a + 1, a + b + 2, a + b + c + 3}
        IN  /\ Len(input) = a + b + c + d + 3
            /\ \A i \in 1..Len(input) :
                  IF i \in dots THEN input[i] = "." ELSE input[i] \in Digits

(***************************************************************************)
(* The docker CLI: when each context command can succeed                   *)
(***************************************************************************)
\* docker context use NAME
DockerUseOk(name) == name \in contexts
\* docker context rm NAME (no -f): refuses the context in use and "default"
DockerRmOk(name) == name \in contexts /\ name # currentContext /\ name # "default"
\* docker context create NAME
DockerCreateOk(name) == name \notin contexts

(***************************************************************************)
(* Bookkeeping                                                             *)
(***************************************************************************)
\* one entry per attempted remote / engine call: what, on which argument, under
\* which selected context, and whether it succeeded
Call(name, arg, ok) == [call |-> name, arg |-> arg, ctx |-> currentContext, ok |-> ok]
Logged(name, arg, ok) == log' = Append(log, Call(name, arg, ok))
Calls(name) == {i \in 1..Len(log) : log[i].call = name}

\* DockerContext.useContext(name) against the context store
UseContext(site, name, ok) ==
    LET done == ok /\ DockerUseOk(name)
    IN  /\ Logged(site, name, done)
        /\ currentContext' = IF done THEN name ELSE currentContext

\* process.exit(1) is pc "Exited" with status 1; a normal return is "Done" with 0
Goto(next) ==
    /\ pc' = next
    /\ exitStatus' = IF next = "Exited" THEN 1 ELSE IF next = "Done" THEN 0 ELSE exitStatus

Ended == pc \in {"Done", "Exited"}

(***************************************************************************)
(* Compose documents (src/lib/compose.js).  A YAML field that may be       *)
(* missing, a sequence or a mapping is a record: kind says which, items    *)
(* holds the elements of a sequence or the keys of a mapping in insertion  *)
(* order, vals the values of a mapping.  A service entry is a mapping of   *)
(* its fields or YAML null ("db:" with nothing under it).  A call of a     *)
(* ComposeManager function that mutates its argument gives the document as *)
(* the call left it and whether the call threw.                            *)
(***************************************************************************)
Absent == [kind |-> "absent", items |-> <<>>, vals |-> <<>>]
List(items) == [kind |-> "seq", items |-> items, vals |-> <<>>]
Mapping(keys, vals) == [kind |-> "map", items |-> keys, vals |-> vals]

Service(image, labels, networks, envFile) ==
    [kind |-> "map", image |-> image, labels |-> labels, networks |-> networks,
     env_file |-> envFile]
NullService == [kind |-> "null", image |-> "", labels |-> Absent, networks |-> Absent,
                env_file |-> Absent]

Document(serviceMap, networkMap) == [services |-> serviceMap, networks |-> networkMap]
NoDocument == Document(Absent, Absent)

\* array.includes(x), Object.keys(o).includes(k)
Has(seq, x) == \E i \in 1..Len(seq) : seq[i] = x
\* array.findIndex / position of a key: the first match, 0 for none
IndexOf(seq, x) == IF Has(seq, x) THEN CHOOSE i \in 1..Len(seq) :
                                            seq[i] = x /\ \A j \in 1..(i - 1) : seq[j] # x
                   ELSE 0
\* o[k] = v: an existing key keeps its place, a new key goes last
Assign(m, k, v) ==
    IF Has(m.items, k)
    THEN Mapping(m.items, [m.vals EXCEPT ![IndexOf(m.items, k)] = v])
    ELSE Mapping(Append(m.items, k), Append(m.vals, v))
\* str.includes(needle)
Includes(str, needle) ==
    \E i \in 1..(Len(str) - Len(needle) + 1) : SubSeq(str, i, i + Len(needle) - 1) = needle

\* names every object answers to without their being keys of it: the members
\* of Object.prototype
InheritedNames == {"constructor"}

\* serviceName is a key of the services mapping
OwnService(doc, serviceName) ==
    doc.services.kind = "map" /\ Has(doc.services.items, serviceName)

\* composeData.services[serviceName] throws (no services) or is falsy: a null
\* entry, or a name that is neither a key nor a member of Object.prototype
NoService(doc, serviceName) ==
    \/ doc.services.kind = "absent"
    \/ ~Has(doc.services.items, serviceName) /\ serviceName \notin InheritedNames
    \/ /\ Has(doc.services.items, serviceName)
       /\ doc.services.vals[IndexOf(doc.services.items, serviceName)].kind = "null"
ServiceOf(doc, serviceName) == doc.services.vals[IndexOf(doc.services.items, serviceName)]
WithService(doc, serviceName, service) ==
    [doc EXCEPT !.services.vals[IndexOf(doc.services.items, serviceName)] = service]

\* ComposeManager.getServices
GetServices(doc) ==
    IF doc.services.kind = "absent"
    THEN [state |-> "threw", names |-> <<>>]
    ELSE [state |-> "returned", names |-> doc.services.items]

\* the character that encloses the host name in the Host(...) rule: a
\* backquote in the source, which the TLA+ lexer does not take inside a
\* string, written here as a single quote
Quote == "'"

\* the five labels of addTraefikLabels
TraefikLabels(serviceName, host) ==
    << "traefik.enable=true",
       "traefik.http.routers." \o serviceName \o ".rule=Host(" \o Quote \o host \o Quote \o ")",
       "traefik.http.routers." \o serviceName \o ".entrypoints=websecure",
       "traefik.http.routers." \o serviceName \o ".tls.certresolver=letsencrypt",
       "traefik.http.services." \o serviceName \o ".loadbalancer.server.port=80" >>

\* mutant: a labels mapping is dropped instead of converted
LabelArrayDropsMapping(labels) ==
    IF labels.kind = "seq" THEN labels.items ELSE <<>>

\* service.labels as an array: [] when missing, key=value per entry of
\* a mapping, an array as it is
LabelArray(labels) ==
    IF labels.kind = "absent" THEN <<>>
    ELSE IF labels.kind = "map"
         THEN [i \in 1..Len(labels.items) |-> labels.items[i] \o "=" \o labels.vals[i]]
         ELSE labels.items

\* mutant: labels already present are not added again
AddTraefikLabelsDeduplicating(doc, serviceName, host) ==
    IF NoService(doc, serviceName)
    THEN [threw |-> TRUE, doc |-> doc]
    ELSE IF ~OwnService(doc, serviceName)
    THEN [threw |-> FALSE, doc |-> doc]
    ELSE LET service == ServiceOf(doc, serviceName)
             old == LabelArray(service.labels)
             new == TraefikLabels(serviceName, host)
             added == IF \A i \in 1..Len(new) : Has(old, new[i]) THEN <<>> ELSE new
         IN  [threw |-> FALSE,
              doc |-> WithService(doc, serviceName,
                          [service EXCEPT !.labels = List(old \o added)])]

\* ComposeManager.addTraefikLabels; for a member of Object.prototype the labels
\* are set on that member and the document stays as it was
AddTraefikLabels(doc, serviceName, host) ==
    IF NoService(doc, serviceName)
    THEN [threw |-> TRUE, doc |-> doc]
    ELSE IF ~OwnService(doc, serviceName)
    THEN [threw |-> FALSE, doc |-> doc]
    ELSE LET service == ServiceOf(doc, serviceName)
         IN  [threw |-> FALSE,
              doc |-> WithService(doc, serviceName,
                          [service EXCEPT !.labels =
                              List(LabelArray(service.labels) \o TraefikLabels(serviceName, host))])]

\* forEach over the services in key order, assigned[i] being entry i after the
\* body's assignment: a null entry throws there, leaving the entries before it
\* changed
ForEachService(doc, assigned) ==
    LET entries == doc.services.vals
        nulls == {i \in 1..Len(entries) : entries[i].kind = "null"}
        stop == IF nulls = {} THEN Len(entries) + 1
                ELSE CHOOSE i \in nulls : \A j \in nulls : i <= j
    IN  [threw |-> nulls # {},
         doc |-> [doc EXCEPT !.services.vals =
                     [i \in 1..Len(entries) |->
                         IF i < stop THEN assigned[i] ELSE entries[i]]]]

\* mutant: traefik is pushed without looking whether it is listed
JoinTraefikUnchecked(networks) ==
    IF networks.kind = "absent" THEN List(<<"traefik">>)
    ELSE IF networks.kind = "seq" THEN List(Append(networks.items, "traefik"))
         ELSE Assign(networks, "traefik", "{}")

\* the networks of one service after addTraefikNetwork
JoinTraefik(networks) ==
    IF networks.kind = "absent" THEN List(<<"traefik">>)
    ELSE IF networks.kind = "seq"
         THEN IF Has(networks.items, "traefik") THEN networks
              ELSE List(Append(networks.items, "traefik"))
         ELSE Assign(networks, "traefik", "{}")

\* composeData.networks after the first two statements of addTraefikNetwork
TopLevelNetworks(networks) ==
    LET declared == IF networks.kind = "absent" THEN Mapping(<<>>, <<>>) ELSE networks
    IN  IF ~Has(declared.items, "traefik")
           \/ declared.vals[IndexOf(declared.items, "traefik")] = "null"
        THEN Assign(declared, "traefik", "{external: true}")
        ELSE declared

\* ComposeManager.addTraefikNetwork
AddTraefikNetwork(doc) ==
    LET top == [doc EXCEPT !.networks = TopLevelNetworks(doc.networks)]
        Join(service) == [service EXCEPT !.networks = JoinTraefik(service.networks)]
    IN  IF doc.services.kind = "absent"
        THEN [threw |-> TRUE, doc |-> top]
        ELSE ForEachService(top, [i \in 1..Len(top.services.vals) |-> Join(top.services.vals[i])])

\* mutant: only services that have no env_file get one
AddEnvFileKeepsPrior(doc, envFileName) ==
    LET Set(service) == IF service.env_file.kind = "absent"
                        THEN [service EXCEPT !.env_file = List(<<envFileName>>)]
                        ELSE service
    IN  IF doc.services.kind = "absent"
        THEN [threw |-> TRUE, doc |-> doc]
        ELSE ForEachService(doc, [i \in 1..Len(doc.services.vals) |-> Set(doc.services.vals[i])])

\* ComposeManager.addEnvFile
AddEnvFile(doc, envFileName) ==
    LET Set(service) == [service EXCEPT !.env_file = List(<<envFileName>>)]
    IN  IF doc.services.kind = "absent"
        THEN [threw |-> TRUE, doc |-> doc]
        ELSE ForEachService(doc, [i \in 1..Len(doc.services.vals) |-> Set(doc.services.vals[i])])

\* no ComposeManager call in progress, no archive being built
NoDocuments ==
    /\ composeData = NoDocument
    /\ hackerrunComposeData = NoDocument
    /\ services = [state |-> "uncalled", names |-> <<>>]
    /\ calls = <<>>
    /\ hackerrunComposeFile = NoDocument
NoArchive ==
    /\ gitignore = <<>>
    /\ outputPath = ""
    /\ archive = {}
NoPromise ==
    [call |-> "none", file |-> "none", credential |-> "none", attempted |-> FALSE,
     stream |-> "none", events |-> 0, exit |-> <<>>, stdout |-> "", stderr |-> "",
     settled |-> <<>>]
NoChannel ==
    /\ keyFiles = {}
    /\ agent = "unset"
    /\ authorized = {}
    /\ promise = NoPromise

Init ==
    /\ cmd = "none"
    /\ pc = "Idle"
    /\ runs = 0
    /\ exitStatus = -1
    /\ log = <<>>
    /\ configVpsIp = NoIp
    /\ projectConfig = <<>>
    /\ projectWrites = 0
    /\ contexts = {"default"}
    /\ currentContext = "default"
    /\ composeFile \in {"missing", "unparsable", "noservices", "ok"}
    /\ envFiles \in SUBSET EnvFileNames
    /\ vpsIp = NoIp
    /\ selectedEnvFile = Undefined
    /\ selectedService = Undefined
    /\ customPort = Undefined
    /\ domain = Undefined
    /\ originalContext = Undefined
    /\ dockerInstalled = FALSE
    /\ session = "none"
    /\ traefikConfig = "unread"
    /\ cmdIdx = 0
    /\ NoDocuments
    /\ NoArchive
    /\ NoChannel

\* A fresh process: every local starts unset
FreshLocals ==
    /\ vpsIp' = NoIp
    /\ selectedEnvFile' = Undefined
    /\ selectedService' = Undefined
    /\ customPort' = Undefined
    /\ domain' = Undefined
    /\ originalContext' = Undefined
    /\ dockerInstalled' = FALSE
    /\ session' = "none"
    /\ traefikConfig' = "unread"
    /\ cmdIdx' = 0

Start(command, first) ==
    /\ pc \in {"Idle", "Done", "Exited"}
    /\ runs < MaxRuns
    /\ cmd' = command
    /\ pc' = first
    /\ runs' = runs + 1
    /\ exitStatus' = -1
    /\ log' = <<>>
    /\ FreshLocals
    /\ UNCHANGED <<persistent, detached>>

(***************************************************************************)
(* deployCommand                                                           *)
(***************************************************************************)
StartDeploy == Start("deploy", "Validate")

\* mutant: the existence check of docker-compose.yml is left out
ValidateOutcomeNoFileCheck(ip, file) ==
    IF ip = NoIp THEN "Exited"
    ELSE IF file = "unparsable" THEN "Exited"
    ELSE "SelectEnvFile"

\* Config.getVpsIp(), fs.existsSync(composeFilePath), ComposeManager.parseCompose
ValidateOutcome(ip, file) ==
    IF ip = NoIp THEN "Exited"
    ELSE IF file = "missing" THEN "Exited"
    ELSE IF file = "unparsable" THEN "Exited"
    ELSE "SelectEnvFile"

DeployValidate ==
    /\ cmd = "deploy" /\ pc = "Validate"
    /\ vpsIp' = configVpsIp
    /\ Goto(ValidateOutcome(configVpsIp, composeFile))
    /\ UNCHANGED <<detached, cmd, runs, log, persistent, selectedEnvFile, selectedService,
                   customPort, domain, originalContext, dockerInstalled, session,
                   traefikConfig, cmdIdx>>

\* mutant: the service and port prompts are skipped
EnvFileNextSkipsService == "TransformDocument"

\* where deployCommand goes once handleEnvFile has returned
EnvFileNext == "SelectService"

\* mutant: a single candidate is not taken
OnlyEnvFileIgnored(files) == Null

\* envFiles[0] when envFiles.length === 1
OnlyEnvFile(files) == CHOOSE f \in files : TRUE

\* handleEnvFile(): the prompts' answers are the inputs
HandleEnvFile ==
    /\ cmd = "deploy" /\ pc = "SelectEnvFile"
    /\ \/ /\ Cardinality(envFiles) = 0
          /\ \E createEnv \in BOOLEAN :
                IF createEnv
                THEN envFiles' = {".env"} /\ selectedEnvFile' = ".env"
                ELSE envFiles' = envFiles /\ selectedEnvFile' = Null
       \/ /\ Cardinality(envFiles) = 1
          /\ selectedEnvFile' = OnlyEnvFile(envFiles)
          /\ envFiles' = envFiles
       \/ /\ Cardinality(envFiles) > 1
          /\ selectedEnvFile' \in envFiles \cup {Null}
          /\ envFiles' = envFiles
    /\ Goto(EnvFileNext)
    /\ UNCHANGED <<detached, cmd, runs, log, configVpsIp, projectConfig, projectWrites, contexts,
                   currentContext, composeFile, vpsIp, selectedService, customPort, domain,
                   originalContext, dockerInstalled, session, traefikConfig, cmdIdx>>

\* where deployCommand goes once service, port and email have been asked
ServiceNext == "TransformDocument"

\* ComposeManager.getServices throws without services (caught by the CLI wrapper,
\* which exits 1); then the service, port and email prompts and the domain
DeploySelectService ==
    /\ cmd = "deploy" /\ pc = "SelectService"
    /\ \/ /\ composeFile = "noservices"
          /\ Goto("Exited")
          /\ UNCHANGED <<selectedService, customPort, domain>>
       \/ /\ composeFile = "ok"
          /\ \E s \in Services, p \in Ports :
                /\ selectedService' = s
                /\ customPort' = p
                /\ domain' = Domain(s, vpsIp)
          /\ Goto(ServiceNext)
    /\ UNCHANGED <<detached, cmd, runs, log, persistent, vpsIp, selectedEnvFile,
                   originalContext, dockerInstalled, session, traefikConfig, cmdIdx>>

\* the try block that clones, transforms and saves the document; the catch exits 1.
\* Whether a transform throws is decided by the document's content (a service
\* entry that is null, a label that is no string), here an input of the step.
DeployTransform ==
    /\ cmd = "deploy" /\ pc = "TransformDocument"
    /\ \E ok \in BOOLEAN : Goto(IF ok THEN "TlsConnect" ELSE "Exited")
    /\ UNCHANGED <<detached, cmd, runs, log, persistent, locals>>

\* mutant: the catch of the proxy TLS update exits
TlsFailedNextFatal == "Exited"

\* the catch of the proxy TLS update: a warning, then the code after the block
TlsFailedNext == "GetCurrentContext"

\* new SSHClient(vpsIp); await ssh.connect()
DeployTlsConnect ==
    /\ cmd = "deploy" /\ pc = "TlsConnect"
    /\ \E ok \in BOOLEAN :
          /\ Logged("ssh.connect", Str(vpsIp), ok)
          /\ session' = IF ok THEN "open" ELSE session
          /\ Goto(IF ok THEN "TlsRead" ELSE TlsFailedNext)
    /\ UNCHANGED <<detached, cmd, runs, persistent, vpsIp, selectedEnvFile, selectedService,
                   customPort, domain, originalContext, dockerInstalled,
                   traefikConfig, cmdIdx>>

\* ssh.executeCommand('cat /opt/hackerrun/traefik/traefik.yml || echo ""')
DeployTlsRead ==
    /\ cmd = "deploy" /\ pc = "TlsRead"
    /\ \/ /\ \E content \in {"empty", "present"} : traefikConfig' = content
          /\ Logged("ssh.exec", "cat traefik.yml", TRUE)
          /\ Goto("TlsWrite")
       \/ /\ Logged("ssh.exec", "cat traefik.yml", FALSE)
          /\ Goto(TlsFailedNext)
          /\ UNCHANGED traefikConfig
    /\ UNCHANGED <<detached, cmd, runs, persistent, vpsIp, selectedEnvFile, selectedService,
                   customPort, domain, originalContext, dockerInstalled, session, cmdIdx>>

\* either branch of traefikConfig.trim() === '': write the file, or sed the email
DeployTlsWrite ==
    /\ cmd = "deploy" /\ pc = "TlsWrite"
    /\ \E ok \in BOOLEAN :
          /\ Logged("ssh.exec",
                    IF traefikConfig = "empty" THEN "cat > traefik.yml" ELSE "sed email", ok)
          /\ Goto(IF ok THEN "TlsRestart" ELSE TlsFailedNext)
    /\ UNCHANGED <<detached, cmd, runs, persistent, locals>>

\* docker compose -f docker-compose.traefik.yml restart traefik
DeployTlsRestart ==
    /\ cmd = "deploy" /\ pc = "TlsRestart"
    /\ \E ok \in BOOLEAN :
          /\ Logged("ssh.exec", "restart traefik", ok)
          /\ Goto(IF ok THEN "TlsDisconnect" ELSE TlsFailedNext)
    /\ UNCHANGED <<detached, cmd, runs, persistent, locals>>

\* await ssh.disconnect(): the last statement of the try block
DeployTlsDisconnect ==
    /\ cmd = "deploy" /\ pc = "TlsDisconnect"
    /\ session' = "closed"
    /\ Goto("GetCurrentContext")
    /\ UNCHANGED <<detached, cmd, runs, log, persistent, vpsIp, selectedEnvFile, selectedService,
                   customPort, domain, originalContext, dockerInstalled,
                   traefikConfig, cmdIdx>>

\* originalContext = await DockerContext.getCurrentContext(); a failure is fatal
DeployGetCurrentContext ==
    /\ cmd = "deploy" /\ pc = "GetCurrentContext"
    /\ \E ok \in BOOLEAN :
          /\ Logged("docker.context.show", "", ok)
          /\ originalContext' = IF ok THEN currentContext ELSE originalContext
          /\ Goto(IF ok THEN "ContextExists" ELSE "Exited")
    /\ UNCHANGED <<detached, cmd, runs, persistent, vpsIp, selectedEnvFile, selectedService,
                   customPort, domain, dockerInstalled, session, traefikConfig, cmdIdx>>

\* DockerContext.contextExists: a failure of listContexts reads as "absent"
ContextExists(name, listOk) == listOk /\ name \in contexts

\* mutant: the existence check's result is not looked at
SwitchAfterExistsUnchecked(exists) == "UseContext"

\* if (!contextExists) throw ...: the catch exits 1
SwitchAfterExists(exists) == IF exists THEN "UseContext" ELSE "Exited"

DeployContextExists ==
    /\ cmd = "deploy" /\ pc = "ContextExists"
    /\ \E ok \in BOOLEAN :
          /\ Logged("docker.context.ls", "", ok)
          /\ Goto(SwitchAfterExists(ContextExists(ContextName(vpsIp), ok)))
    /\ UNCHANGED <<detached, cmd, runs, persistent, locals>>

\* mutant: a failed switch to the host's context is only reported
SwitchFailedNextContinues == "Down"

\* the catch of the context switch: process.exit(1)
SwitchFailedNext == "Exited"

\* await DockerContext.useContext(contextName); a failure is fatal
DeployUseContext ==
    /\ cmd = "deploy" /\ pc = "UseContext"
    /\ \E ok \in BOOLEAN :
          LET name == ContextName(vpsIp)
          IN  /\ UseContext("useContext.switch", name, ok)
              /\ Goto(IF ok /\ DockerUseOk(name) THEN "Down" ELSE SwitchFailedNext)
    /\ UNCHANGED <<detached, cmd, runs, configVpsIp, projectConfig, projectWrites, contexts, composeFile,
                   envFiles, locals>>

\* mutant: a failed tear-down goes to the outer catch
AfterDownFatal(ok) == IF ok THEN "Up" ELSE "RestoreAfterFailure"

\* the inner try/catch around the tear-down: either way the bring-up is next
AfterDown(ok) == "Up"

\* docker compose -f docker-compose.hackerrun.yml down: its failure is swallowed
DeployDown ==
    /\ cmd = "deploy" /\ pc = "Down"
    /\ \E ok \in BOOLEAN :
          /\ Logged("compose.down", "", ok)
          /\ Goto(AfterDown(ok))
    /\ UNCHANGED <<detached, cmd, runs, persistent, locals>>

\* mutant: the catch of the bring-up exits without restoring
UpFailedNextNoRestore == "Exited"

\* mutant: a failed bring-up is tried again
UpFailedNextRetry == "Up"

\* the outer catch of the bring-up: restore the context, then process.exit(1)
UpFailedNext == "RestoreAfterFailure"

\* docker compose -f docker-compose.hackerrun.yml up -d
DeployUp ==
    /\ cmd = "deploy" /\ pc = "Up"
    /\ \E ok \in BOOLEAN :
          /\ Logged("compose.up", "", ok)
          /\ Goto(IF ok THEN "Restore" ELSE UpFailedNext)
    /\ UNCHANGED <<detached, cmd, runs, persistent, locals>>

\* mutant: the restore is given the host's context name
RestoreTargetHost(original, name) == name

\* the argument of both restoring useContext calls
RestoreTarget(original, name) == original

\* catch of the bring-up: best-effort restore, its own failure only warned, exit 1
DeployRestoreAfterFailure ==
    /\ cmd = "deploy" /\ pc = "RestoreAfterFailure"
    /\ \E ok \in BOOLEAN :
          UseContext("useContext.restore", RestoreTarget(originalContext, ContextName(vpsIp)), ok)
    /\ Goto("Exited")
    /\ UNCHANGED <<detached, cmd, runs, configVpsIp, projectConfig, projectWrites, contexts, composeFile,
                   envFiles, locals>>

\* mutant: a failed restore after a successful bring-up exits
RestoreFailedNextFatal == "Exited"

\* the catch of the restore after a successful bring-up: a warning only
RestoreFailedNext == "PersistRecord"

\* restore after a successful bring-up
DeployRestore ==
    /\ cmd = "deploy" /\ pc = "Restore"
    /\ \E ok \in BOOLEAN :
          LET target == RestoreTarget(originalContext, ContextName(vpsIp))
          IN  /\ UseContext("useContext.restore", target, ok)
              /\ Goto(IF ok /\ DockerUseOk(target) THEN "PersistRecord" ELSE RestoreFailedNext)
    /\ UNCHANGED <<detached, cmd, runs, configVpsIp, projectConfig, projectWrites, contexts, composeFile,
                   envFiles, locals>>

\* the object literal passed to Config.saveProjectConfig
DeploymentRecord ==
    [vpsIp |-> vpsIp, selectedService |-> selectedService, domain |-> domain,
     deployedAt |-> runs]

\* mutant: the new record is merged under the old one, { ...new, ...old }
SavedRecordMerged(old, new) == IF old = <<>> THEN <<new>> ELSE old

\* Config.saveProjectConfig: writeFileSync of the whole serialized record
SavedRecord(old, new) == <<new>>

DeployPersist ==
    /\ cmd = "deploy" /\ pc = "PersistRecord"
    /\ projectConfig' = SavedRecord(projectConfig, DeploymentRecord)
    /\ projectWrites' = projectWrites + 1
    /\ Goto("Done")
    /\ UNCHANGED <<detached, cmd, runs, log, configVpsIp, contexts, currentContext, composeFile,
                   envFiles, locals>>

DeployNext ==
    \/ StartDeploy
    \/ DeployValidate
    \/ HandleEnvFile
    \/ DeploySelectService
    \/ DeployTransform
    \/ DeployTlsConnect
    \/ DeployTlsRead
    \/ DeployTlsWrite
    \/ DeployTlsRestart
    \/ DeployTlsDisconnect
    \/ DeployGetCurrentContext
    \/ DeployContextExists
    \/ DeployUseContext
    \/ DeployDown
    \/ DeployUp
    \/ DeployRestoreAfterFailure
    \/ DeployRestore
    \/ DeployPersist

(***************************************************************************)
(* initCommand                                                             *)
(***************************************************************************)
StartInit == Start("init", "CheckExistingConfig")

\* the remote commands of the install block and of the Traefik block, in order
InstallCommands == <<"echo script > /tmp/install-docker.sh", "chmod +x", "run script">>
\* mutant: the Traefik block uploads the files and does not start the stack
ProxyCommandsWithoutUp ==
    <<"mkdir -p traefik", "touch acme.json", "chmod 600 acme.json",
      "cat > traefik.yml", "cat > docker-compose.traefik.yml">>

ProxyCommands ==
    <<"mkdir -p traefik", "touch acme.json", "chmod 600 acme.json",
      "cat > traefik.yml", "cat > docker-compose.traefik.yml", "compose up -d">>

\* mutant: declining to reconfigure ends the run as a failure
DeclinedNextExits == "Exited"

\* if (!reinitialize) { ...; return; }
DeclinedNext == "Done"

\* Config.getVpsIp() and the reconfigure prompt
InitCheckExisting ==
    /\ cmd = "init" /\ pc = "CheckExistingConfig"
    /\ \/ /\ configVpsIp = NoIp
          /\ Goto("CollectHostAddress")
       \/ /\ configVpsIp # NoIp
          /\ \E reinitialize \in BOOLEAN :
                Goto(IF reinitialize THEN "CollectHostAddress" ELSE DeclinedNext)
    /\ UNCHANGED <<detached, cmd, runs, log, persistent, locals>>

\* the address prompt: inquirer asks again until validate(input) returns true,
\* so only input the pattern accepts comes back; then new SSHClient(vpsIp)
CollectAddress(inputs) ==
    /\ cmd = "init" /\ pc = "CollectHostAddress"
    /\ \E input \in inputs :
          /\ IpRegexTest(input)
          /\ vpsIp' = input
    /\ Goto("TestConnection")
    /\ UNCHANGED <<detached, cmd, runs, log, persistent, selectedEnvFile, selectedService,
                   customPort, domain, originalContext, dockerInstalled, session,
                   traefikConfig, cmdIdx>>

InitCollectAddress == CollectAddress(Hosts)

\* await ssh.connect(): a failure exits 1
InitConnect ==
    /\ cmd = "init" /\ pc = "TestConnection"
    /\ \E ok \in BOOLEAN :
          /\ Logged("ssh.connect", Str(vpsIp), ok)
          /\ session' = IF ok THEN "open" ELSE session
          /\ Goto(IF ok THEN "DetectEngine" ELSE "Exited")
    /\ UNCHANGED <<detached, cmd, runs, persistent, vpsIp, selectedEnvFile, selectedService,
                   customPort, domain, originalContext, dockerInstalled,
                   traefikConfig, cmdIdx>>

\* mutant: the install block is entered whatever the version check said
EngineNextAlwaysInstall(installed) == "InstallEngine"

\* if (!dockerInstalled) { install block }, else straight to the Traefik block
EngineNext(installed) == IF installed THEN "ConfigureProxy" ELSE "InstallEngine"

\* docker --version && docker compose version: any failure means "not installed"
InitDetectEngine ==
    /\ cmd = "init" /\ pc = "DetectEngine"
    /\ \E ok \in BOOLEAN :
          /\ Logged("ssh.exec", "docker --version", ok)
          /\ dockerInstalled' = ok
          /\ Goto(EngineNext(ok))
    /\ cmdIdx' = 1
    /\ UNCHANGED <<detached, cmd, runs, persistent, vpsIp, selectedEnvFile, selectedService,
                   customPort, domain, originalContext, session, traefikConfig>>

\* mutant: the catch of a block reports the failure and goes on to the context block
BlockFailedNextContinues == "Disconnect"

\* the catch of the install block and of the Traefik block: process.exit(1)
BlockFailedNext == "Exited"

\* one remote command of a block whose catch exits 1
BlockCommand(block, commands, next) ==
    /\ cmd = "init" /\ pc = block
    /\ cmdIdx \in 1..Len(commands)
    /\ \E ok \in BOOLEAN :
          /\ Logged("ssh.exec", commands[cmdIdx], ok)
          /\ IF ~ok THEN Goto(BlockFailedNext) /\ cmdIdx' = cmdIdx
             ELSE IF cmdIdx < Len(commands) THEN Goto(block) /\ cmdIdx' = cmdIdx + 1
             ELSE Goto(next) /\ cmdIdx' = 1
    /\ UNCHANGED <<detached, cmd, runs, persistent, vpsIp, selectedEnvFile, selectedService,
                   customPort, domain, originalContext, dockerInstalled, session,
                   traefikConfig>>

\* if (!dockerInstalled) { upload the script, chmod it, run it }
InitInstall == BlockCommand("InstallEngine", InstallCommands, "ConfigureProxy")

\* the Traefik block: directories, acme.json, traefik.yml, compose file, up -d
InitConfigureProxy == BlockCommand("ConfigureProxy", ProxyCommands, "Disconnect")

\* await ssh.disconnect() after the Traefik block
InitDisconnect ==
    /\ cmd = "init" /\ pc = "Disconnect"
    /\ session' = "closed"
    /\ Goto("InitGetCurrentContext")
    /\ UNCHANGED <<detached, cmd, runs, log, persistent, vpsIp, selectedEnvFile, selectedService,
                   customPort, domain, originalContext, dockerInstalled,
                   traefikConfig, cmdIdx>>

\* mutant: the catch of the context block exits
ContextFailedNextFatal == "Exited"

\* the catch of the context block: reported, then Config.setVpsIp all the same
ContextFailedNext == "PersistConfig"

\* originalContext = await DockerContext.getCurrentContext()
InitGetCurrentContext ==
    /\ cmd = "init" /\ pc = "InitGetCurrentContext"
    /\ \E ok \in BOOLEAN :
          /\ Logged("docker.context.show", "", ok)
          /\ originalContext' = IF ok THEN currentContext ELSE originalContext
          /\ Goto(IF ok THEN "CreateContextRm" ELSE ContextFailedNext)
    /\ UNCHANGED <<detached, cmd, runs, persistent, vpsIp, selectedEnvFile, selectedService,
                   customPort, domain, dockerInstalled, session, traefikConfig, cmdIdx>>

\* createContext, first half: docker context rm NAME, any error ignored
CreateContextRm ==
    /\ cmd = "init" /\ pc = "CreateContextRm"
    /\ \E ok \in BOOLEAN :
          LET name == ContextName(vpsIp)
              done == ok /\ DockerRmOk(name)
          IN  /\ Logged("docker.context.rm", name, done)
              /\ contexts' = IF done THEN contexts \ {name} ELSE contexts
    /\ Goto("CreateContextCreate")
    /\ UNCHANGED <<detached, cmd, runs, configVpsIp, projectConfig, projectWrites, currentContext, composeFile,
                   envFiles, locals>>

\* createContext, second half: docker context create NAME --docker host=ssh://root@HOST
CreateContextCreate ==
    /\ cmd = "init" /\ pc = "CreateContextCreate"
    /\ \E ok \in BOOLEAN :
          LET name == ContextName(vpsIp)
              done == ok /\ DockerCreateOk(name)
          IN  /\ Logged("docker.context.create", name, done)
              /\ contexts' = IF done THEN contexts \cup {name} ELSE contexts
              /\ Goto(IF done THEN "UseOriginal" ELSE ContextFailedNext)
    /\ UNCHANGED <<detached, cmd, runs, configVpsIp, projectConfig, projectWrites, currentContext, composeFile,
                   envFiles, locals>>

\* await DockerContext.useContext(originalContext)
InitUseOriginal ==
    /\ cmd = "init" /\ pc = "UseOriginal"
    /\ \E ok \in BOOLEAN :
          /\ UseContext("useContext.restore", originalContext, ok)
          /\ Goto(IF ok /\ DockerUseOk(originalContext) THEN "PersistConfig"
                  ELSE ContextFailedNext)
    /\ UNCHANGED <<detached, cmd, runs, configVpsIp, projectConfig, projectWrites, contexts, composeFile,
                   envFiles, locals>>

\* Config.setVpsIp(vpsIp)
InitPersist ==
    /\ cmd = "init" /\ pc = "PersistConfig"
    /\ configVpsIp' = vpsIp
    /\ Goto("Done")
    /\ UNCHANGED <<detached, cmd, runs, log, projectConfig, projectWrites, contexts, currentContext, composeFile,
                   envFiles, locals>>

InitNext ==
    \/ StartInit
    \/ InitCheckExisting
    \/ InitCollectAddress
    \/ InitConnect
    \/ InitDetectEngine
    \/ InitInstall
    \/ InitConfigureProxy
    \/ InitDisconnect
    \/ InitGetCurrentContext
    \/ CreateContextRm
    \/ CreateContextCreate
    \/ InitUseOriginal
    \/ InitPersist

Next == DeployNext \/ InitNext

Spec == Init /\ [][Next]_vars

(***************************************************************************)
(* Properties of the deploy choreography                                   *)
(***************************************************************************)
InDeploy == cmd = "deploy"
HostContext == ContextName(vpsIp)
Succeeded(name) == \E i \in Calls(name) : log[i].ok
Failed(name) == \E i \in Calls(name) : ~log[i].ok
Attempted(name) == Calls(name) # {}
LastCallIs(name, ok) == log # <<>> /\ log[Len(log)].call = name /\ log[Len(log)].ok = ok

\* C1: in every deploy run in which the switch to the host's context succeeded,
\* useContext(originalContext) has been executed, after the switch, by the time
\* the run returns or exits, whether the bring-up succeeded or failed.
C1_RestoreOnEveryExit ==
    (InDeploy /\ Ended /\ Succeeded("useContext.switch")) =>
        \E i \in Calls("useContext.switch"), j \in Calls("useContext.restore") :
            i < j /\ log[j].arg = originalContext

C1_Witness ==
    /\ InDeploy /\ pc = "Exited"
    /\ Succeeded("useContext.switch") /\ Failed("compose.up")
    /\ Attempted("useContext.restore")

\* C2 as stated: when the bring-up fails after a successful switch, the run ends
\* with the current context equal to its pre-deploy value and with exit status 1.
C2_ContextRestoredOnFailure ==
    (InDeploy /\ Ended /\ Succeeded("useContext.switch") /\ Failed("compose.up")) =>
        currentContext = originalContext /\ exitStatus = 1

\* C2 amended: when the bring-up fails after a successful switch, the run attempts
\* useContext(originalContext) once and exits with status 1; the current context
\* is the pre-deploy one if that restore succeeded and stays the host's context
\* if it failed.
C2_RestoreAttemptedOnFailure ==
    (InDeploy /\ Ended /\ Succeeded("useContext.switch") /\ Failed("compose.up")) =>
        /\ exitStatus = 1
        /\ Cardinality(Calls("useContext.restore")) = 1
        /\ \A j \in Calls("useContext.restore") :
              /\ log[j].arg = originalContext
              /\ log[j].ok => currentContext = originalContext
              /\ ~log[j].ok => currentContext = HostContext

C2_Witness ==
    /\ InDeploy /\ pc = "Exited" /\ Failed("compose.up")
    /\ Succeeded("useContext.restore")
    /\ currentContext = originalContext /\ originalContext # HostContext

\* C3: a deploy with no configured host address, or with no docker-compose.yml,
\* exits with status 1 at validation and has made no remote or engine call.
C3_NoRemoteCallWithoutConfig ==
    (InDeploy /\ pc # "Validate" /\ (configVpsIp = NoIp \/ composeFile = "missing")) =>
        pc = "Exited" /\ exitStatus = 1 /\ log = <<>> /\ session = "none"

C3_Witness ==
    InDeploy /\ pc = "Exited" /\ configVpsIp # NoIp /\ composeFile = "missing"

\* C4 as stated: the remote session a choreography opened has been closed by
\* disconnect() whenever the choreography has returned or exited.
C4_SessionClosedOnEveryExit == Ended => session # "open"

\* C5: a failure of any step of the proxy TLS update is not fatal: the step that
\* failed is followed by the context-switch step, with no exit status set.
TlsSteps == {"TlsConnect", "TlsRead", "TlsWrite", "TlsRestart", "TlsDisconnect"}

C5_TlsFailureNotFatal ==
    [][(InDeploy /\ pc \in TlsSteps /\ pc' \notin TlsSteps) =>
          pc' = "GetCurrentContext" /\ exitStatus' = -1]_vars

C5_Witness ==
    /\ InDeploy /\ pc = "GetCurrentContext" /\ session = "open"
    /\ LastCallIs("ssh.exec", FALSE)

RecordFields == {"vpsIp", "selectedService", "domain", "deployedAt"}

C8_RecordOverwritten ==
    [][/\ (projectConfig' # projectConfig \/ projectWrites' # projectWrites) =>
            /\ InDeploy /\ Succeeded("compose.up") /\ pc' = "Done"
            /\ projectConfig' = <<DeploymentRecord>>
            /\ DOMAIN projectConfig'[1] = RecordFields
       /\ (pc = "PersistRecord" /\ pc' # pc) => projectWrites' = projectWrites + 1
       /\ pc' = "Exited" => projectConfig' = projectConfig]_vars

C8_Witness ==
    /\ InDeploy /\ pc = "Done" /\ projectWrites >= 2
    /\ projectConfig = <<DeploymentRecord>>

\* C9 as stated, in the part the code decides otherwise: the service and port
\* are selected before the environment file is selected.
C9_ServiceBeforeEnvFile ==
    (InDeploy /\ selectedEnvFile # Undefined) => selectedService # Undefined

\* the spec's state of each position of deployCommand
Phase(p) ==
    CASE p = "Validate" -> "Validate"
      [] p = "SelectEnvFile" -> "SelectEnvFile"
      [] p = "SelectService" -> "SelectService&Port"
      [] p = "TransformDocument" -> "TransformDocument"
      [] p \in TlsSteps -> "UpdateProxyTLS"
      [] p \in {"GetCurrentContext", "ContextExists", "UseContext"} -> "SwitchContext"
      [] p \in {"Down", "Up"} -> "BringUp"
      [] p \in {"Restore", "RestoreAfterFailure"} -> "RestoreContext"
      [] p = "PersistRecord" -> "PersistRecord"
      [] p = "Done" -> "Done"

DeployOrder ==
    <<"Validate", "SelectEnvFile", "SelectService&Port", "TransformDocument",
      "UpdateProxyTLS", "SwitchContext", "BringUp", "RestoreContext",
      "PersistRecord", "Done">>

Rank(p) == CHOOSE i \in 1..Len(DeployOrder) : DeployOrder[i] = Phase(p)

\* C9 amended: the deploy sequence visits its states only in the order Validate,
\* SelectEnvFile, SelectService&Port, TransformDocument, UpdateProxyTLS,
\* SwitchContext, BringUp, RestoreContext, PersistRecord, Done: every step stays
\* in its state, moves to the next one, or is a fatal exit; the environment file
\* is selected before the service and port.
C9_DeployOrder ==
    [][(InDeploy /\ ~Ended /\ pc' # "Exited") =>
          /\ Rank(pc') \in {Rank(pc), Rank(pc) + 1}
          /\ selectedService' # Undefined => selectedEnvFile' # Undefined]_vars

C9_Witness ==
    InDeploy /\ pc = "SelectService" /\ selectedEnvFile # Undefined
        /\ selectedService = Undefined

(***************************************************************************)
(* Properties of the context store                                         *)
(***************************************************************************)
\* C10 as stated: createContext removes a context of that name that already
\* exists, the currently selected one included, so that the create that follows
\* never meets a stale entry.
C10_NoStaleContextAtCreate ==
    (cmd = "init" /\ pc = "CreateContextCreate" /\ currentContext = HostContext) =>
        HostContext \notin contexts

(***************************************************************************)
(* The address prompt of initCommand over everything that can be typed     *)
(***************************************************************************)
InitPromptAddress == CollectAddress(AddressInputs)

AddressInit ==
    /\ Init
    /\ composeFile = "ok"
    /\ envFiles = {}

AddressNext ==
    \/ StartInit
    \/ InitCheckExisting
    \/ InitPromptAddress
    \/ InitConnect

SpecAddress == AddressInit /\ [][AddressNext]_vars

\* the value of a string of digits
RECURSIVE Decimal(_)
Decimal(digits) ==
    IF digits = <<>> THEN 0
    ELSE 10 * Decimal(SubSeq(digits, 1, Len(digits) - 1))
         + (CHOOSE n \in 0..9 :
               <<"0", "1", "2", "3", "4", "5", "6", "7", "8", "9">>[n + 1] = digits[Len(digits)])

\* the parts of an address between its dots
RECURSIVE Octets(_)
Octets(address) ==
    IF ~Has(address, ".") THEN <<address>>
    ELSE <<SubSeq(address, 1, IndexOf(address, ".") - 1)>>
         \o Octets(SubSeq(address, IndexOf(address, ".") + 1, Len(address)))

\* four parts, each one to three digits with a value of at most 255
DottedQuad(address) ==
    /\ Len(Octets(address)) = 4
    /\ \A i \in 1..4 :
          LET octet == Octets(address)[i]
          IN  /\ Len(octet) \in 1..3
              /\ \A j \in 1..Len(octet) : octet[j] \in Digits
              /\ Decimal(octet) <= 255

\* C11: every connection attempt of a provision run is made with an address
\* that is a valid dotted quad: an address with an octet above 255 never gets
\* past the prompt
C11_InvalidAddressRejected ==
    (cmd = "init" /\ Calls("ssh.connect") # {}) => DottedQuad(vpsIp)

(***************************************************************************)
(* ComposeManager over parsed documents: the calls a caller can make on a  *)
(* document it holds, and the part of deployCommand that works on the      *)
(* document (env file, service selection, the transform try block)         *)
(***************************************************************************)
MaxCalls == 2

PortNeedle == "loadbalancer.server.port="

LabelForms ==
    { Absent,
      List(<<"app=shop">>),
      List(<<"traefik.http.services.api.loadbalancer.server.port=3000", "app=shop">>),
      Mapping(<<"app", "tier">>, <<"shop", "front">>) }
NetworkForms ==
    { Absent,
      List(<<"backend">>),
      List(<<"traefik">>),
      Mapping(<<"backend">>, <<"{}">>),
      Mapping(<<"backend", "traefik">>, <<"{}", "{aliases: [app]}">>) }
EnvFileForms == { Absent, List(<<".env.old">>) }
WebForms ==
    { Service("shop:1", l, n, e) : l \in LabelForms, n \in NetworkForms, e \in EnvFileForms }
DbForms ==
    { Service("postgres:16", Absent, Absent, Absent),
      Service("postgres:16", Mapping(<<"role">>, <<"store">>),
              Mapping(<<"backend">>, <<"{}">>), List(<<".env.db">>)),
      NullService }
ServiceMaps ==
    { Absent, Mapping(<<>>, <<>>) }
    \cup { Mapping(<<"web">>, <<w>>) : w \in WebForms }
    \cup { Mapping(<<"web", "db">>, <<w, d>>) : w \in WebForms, d \in DbForms }
TopLevelForms ==
    { Absent,
      Mapping(<<"backend">>, <<"{driver: bridge}">>),
      Mapping(<<"traefik">>, <<"null">>),
      Mapping(<<"backend", "traefik">>, <<"{driver: bridge}", "{driver: bridge}">>),
      Mapping(<<"traefik">>, <<"{external: true}">>) }
Documents == { Document(m, n) : m \in ServiceMaps, n \in TopLevelForms }
ComposeHost == <<"1", ".", "2", ".", "3", ".", "4">>

\* either a caller that holds a parsed document and is about to call
\* ComposeManager on it, or a deploy that has just parsed docker-compose.yml
ComposeInit ==
    /\ runs = 0
    /\ exitStatus = -1
    /\ log = <<>>
    /\ configVpsIp = ComposeHost
    /\ projectConfig = <<>>
    /\ projectWrites = 0
    /\ contexts = {"default"}
    /\ currentContext = "default"
    /\ composeFile = "ok"
    /\ vpsIp = ComposeHost
    /\ selectedEnvFile = Undefined
    /\ selectedService = Undefined
    /\ customPort = Undefined
    /\ domain = Undefined
    /\ originalContext = Undefined
    /\ dockerInstalled = FALSE
    /\ session = "none"
    /\ traefikConfig = "unread"
    /\ cmdIdx = 0
    /\ composeData \in Documents
    /\ services = [state |-> "uncalled", names |-> <<>>]
    /\ calls = <<>>
    /\ hackerrunComposeFile = NoDocument
    /\ NoArchive
    /\ NoChannel
    /\ \/ /\ cmd = "none" /\ pc = "Idle"
          /\ envFiles = {}
          /\ hackerrunComposeData = composeData
       \/ /\ cmd = "deploy" /\ pc = "SelectEnvFile"
          /\ envFiles \in SUBSET EnvFileNames
          /\ hackerrunComposeData = NoDocument

Called(fn, args, threw) == [fn |-> fn, args |-> args, threw |-> threw]

\* ComposeManager.getServices(document)
CallGetServices ==
    /\ cmd = "none" /\ pc = "Idle"
    /\ services' = GetServices(hackerrunComposeData)
    /\ UNCHANGED <<cmd, pc, runs, exitStatus, log, persistent, locals, composeData,
                   hackerrunComposeData, calls, hackerrunComposeFile, archiving, channel>>

\* ComposeManager.addTraefikLabels(document, serviceName, domain)
CallAddTraefikLabels ==
    /\ cmd = "none" /\ pc = "Idle" /\ Len(calls) < MaxCalls
    /\ \E serviceName \in Services \cup InheritedNames :
          LET host == Domain(serviceName, vpsIp)
              result == AddTraefikLabels(hackerrunComposeData, serviceName, host)
          IN  /\ hackerrunComposeData' = result.doc
              /\ calls' = Append(calls, Called("addTraefikLabels", <<serviceName, host>>,
                                               result.threw))
    /\ UNCHANGED <<cmd, pc, runs, exitStatus, log, persistent, locals, composeData,
                   services, hackerrunComposeFile, archiving, channel>>

\* ComposeManager.addTraefikNetwork(document)
CallAddTraefikNetwork ==
    /\ cmd = "none" /\ pc = "Idle" /\ Len(calls) < MaxCalls
    /\ LET result == AddTraefikNetwork(hackerrunComposeData)
       IN  /\ hackerrunComposeData' = result.doc
           /\ calls' = Append(calls, Called("addTraefikNetwork", <<>>, result.threw))
    /\ UNCHANGED <<cmd, pc, runs, exitStatus, log, persistent, locals, composeData,
                   services, hackerrunComposeFile, archiving, channel>>

\* ComposeManager.addEnvFile(document, envFileName)
CallAddEnvFile ==
    /\ cmd = "none" /\ pc = "Idle" /\ Len(calls) < MaxCalls
    /\ \E envFileName \in EnvFileNames :
          LET result == AddEnvFile(hackerrunComposeData, envFileName)
          IN  /\ hackerrunComposeData' = result.doc
              /\ calls' = Append(calls, Called("addEnvFile", <<envFileName>>, result.threw))
    /\ UNCHANGED <<cmd, pc, runs, exitStatus, log, persistent, locals, composeData,
                   services, hackerrunComposeFile, archiving, channel>>

\* getServices(composeData), not inside any try: a throw ends the run with
\* status 1; then the service, port and email prompts and the domain.  With
\* no service to choose from the list prompt has nothing to return.
ListAndSelectService ==
    /\ cmd = "deploy" /\ pc = "SelectService"
    /\ services.state = "uncalled"
    /\ services' = GetServices(composeData)
    /\ IF services'.state = "threw"
       THEN /\ Goto("Exited")
            /\ UNCHANGED <<selectedService, customPort, domain>>
       ELSE IF services'.names = <<>>
            THEN UNCHANGED <<pc, exitStatus, selectedService, customPort, domain>>
            ELSE /\ \E i \in 1..Len(services'.names), p \in Ports :
                       /\ selectedService' = services'.names[i]
                       /\ customPort' = p
                       /\ domain' = Domain(services'.names[i], vpsIp)
                 /\ Goto(ServiceNext)
    /\ UNCHANGED <<cmd, runs, log, persistent, vpsIp, selectedEnvFile, originalContext,
                   dockerInstalled, session, traefikConfig, cmdIdx, composeData,
                   hackerrunComposeData, calls, hackerrunComposeFile, archiving, channel>>

\* mutant: the transform works on the parsed document itself
CloneShared(doc) == [object |-> "same", doc |-> doc]

\* JSON.parse(JSON.stringify(composeData)): another object with the same content
Clone(doc) == [object |-> "copy", doc |-> doc]

\* service.labels.findIndex(label => label.includes('loadbalancer.server.port=')):
\* the first such label, 0 for none
PortLabelIndex(labels) ==
    IF \E i \in 1..Len(labels) : Includes(labels[i], PortNeedle)
    THEN CHOOSE i \in 1..Len(labels) :
            /\ Includes(labels[i], PortNeedle)
            /\ \A j \in 1..(i - 1) : ~Includes(labels[j], PortNeedle)
    ELSE 0

\* the port block of the transform: with a port other than '80' the label
\* found is replaced by the port label of the selected service
OverridePort(doc, serviceName, port) ==
    LET service == ServiceOf(doc, serviceName)
        labelIndex == PortLabelIndex(service.labels.items)
    IN  IF port # "80" /\ labelIndex # 0
        THEN WithService(doc, serviceName,
                 [service EXCEPT !.labels.items[labelIndex] =
                     "traefik.http.services." \o serviceName
                         \o ".loadbalancer.server.port=" \o port])
        ELSE doc

\* the statements of the try block after the clone, in order, up to the first
\* that throws: the document as they left it, the ComposeManager calls made
Transform(doc, serviceName, port, envFileName, host) ==
    LET labelled == AddTraefikLabels(doc, serviceName, host)
        ported == IF labelled.threw THEN doc
                  ELSE OverridePort(labelled.doc, serviceName, port)
        withEnv == IF envFileName = Null THEN [threw |-> FALSE, doc |-> ported]
                   ELSE AddEnvFile(ported, envFileName)
        joined == AddTraefikNetwork(withEnv.doc)
        labelCall == <<Called("addTraefikLabels", <<serviceName, host>>, labelled.threw)>>
        envCall == IF envFileName = Null THEN <<>>
                   ELSE <<Called("addEnvFile", <<envFileName>>, withEnv.threw)>>
        joinCall == <<Called("addTraefikNetwork", <<>>, joined.threw)>>
    IN  IF labelled.threw
        THEN [threw |-> TRUE, doc |-> labelled.doc, calls |-> labelCall]
        ELSE IF withEnv.threw
             THEN [threw |-> TRUE, doc |-> withEnv.doc, calls |-> labelCall \o envCall]
             ELSE [threw |-> joined.threw, doc |-> joined.doc,
                   calls |-> labelCall \o envCall \o joinCall]

\* the try block of deployCommand that clones, transforms and saves the
\* document; the catch exits 1
TransformDocument ==
    /\ cmd = "deploy" /\ pc = "TransformDocument"
    /\ LET target == Clone(composeData)
           result == Transform(target.doc, selectedService, customPort, selectedEnvFile,
                               domain)
       IN  /\ hackerrunComposeData' = result.doc
           /\ composeData' = IF target.object = "same" THEN result.doc ELSE composeData
           /\ calls' = result.calls
           /\ hackerrunComposeFile' = IF result.threw THEN hackerrunComposeFile
                                      ELSE result.doc
           /\ Goto(IF result.threw THEN "Exited" ELSE "TlsConnect")
    /\ UNCHANGED <<cmd, runs, log, persistent, locals, services, archiving, channel>>

ComposeNext ==
    \/ CallGetServices
    \/ CallAddTraefikLabels
    \/ CallAddTraefikNetwork
    \/ CallAddEnvFile
    \/ HandleEnvFile
    \/ ListAndSelectService
    \/ TransformDocument
    \/ DeployTlsConnect

SpecCompose == ComposeInit /\ [][ComposeNext]_vars

(***************************************************************************)
(* Properties of ComposeManager and of the transform                       *)
(***************************************************************************)
Direct == cmd = "none" /\ pc = "Idle"
Transformed == cmd = "deploy" /\ pc = "TlsConnect"
TransformFailed == cmd = "deploy" /\ pc = "Exited" /\ calls # <<>>

\* the first call named a service of the parsed document
OnService == OwnService(composeData, calls[1].args[1])

\* the calls made so far are exactly these, and none threw
Made(fns) ==
    /\ Len(calls) = Len(fns)
    /\ \A i \in 1..Len(fns) : calls[i].fn = fns[i] /\ ~calls[i].threw

\* C12: getServices returns exactly the keys of the services mapping, in
\* mapping order, when the mapping is non-empty, and throws when services is
\* absent or an empty mapping
C12_GetServicesKeysOrError ==
    services.state # "uncalled" =>
        IF composeData.services.kind = "map" /\ composeData.services.items # <<>>
        THEN services = [state |-> "returned", names |-> composeData.services.items]
        ELSE services.state = "threw"

\* the five routing labels a service is expected to get
RoutingLabel(n, serviceName, host) ==
    CASE n = 1 -> "traefik.enable=true"
      [] n = 2 -> "traefik.http.routers." \o serviceName \o ".rule=Host('" \o host \o "')"
      [] n = 3 -> "traefik.http.routers." \o serviceName \o ".entrypoints=websecure"
      [] n = 4 -> "traefik.http.routers." \o serviceName \o ".tls.certresolver=letsencrypt"
      [] n = 5 -> "traefik.http.services." \o serviceName \o ".loadbalancer.server.port=80"

\* labels[from + 1 .. from + 5] are the five routing labels in their order
RoutingLabelsAt(labels, from, serviceName, host) ==
    /\ Len(labels) >= from + 5
    /\ \A n \in 1..5 : labels[from + n] = RoutingLabel(n, serviceName, host)

\* C13: one addTraefikLabels call on a service without labels leaves exactly
\* the five routing labels in their fixed order; on a service whose labels
\* are a mapping it leaves a sequence holding every pair as "key=value" in
\* mapping order, followed by the five routing labels
C13_LabelsNormalisedThenRouting ==
    (Direct /\ Made(<<"addTraefikLabels">>) /\ OnService) =>
        LET serviceName == calls[1].args[1]
            host == calls[1].args[2]
            before == ServiceOf(composeData, serviceName).labels
            after == ServiceOf(hackerrunComposeData, serviceName).labels
        IN  /\ before.kind = "absent" =>
                  /\ after.kind = "seq"
                  /\ Len(after.items) = 5
                  /\ RoutingLabelsAt(after.items, 0, serviceName, host)
            /\ before.kind = "map" =>
                  /\ after.kind = "seq"
                  /\ Len(after.items) = Len(before.items) + 5
                  /\ \A i \in 1..Len(before.items) :
                        after.items[i] = before.items[i] \o "=" \o before.vals[i]
                  /\ RoutingLabelsAt(after.items, Len(before.items), serviceName, host)

C13_Witness ==
    /\ Direct /\ Made(<<"addTraefikLabels">>) /\ OnService
    /\ ServiceOf(composeData, calls[1].args[1]).labels.kind = "map"
    /\ Len(ServiceOf(hackerrunComposeData, calls[1].args[1]).labels.items) = 7

\* the labels a service had when the document was parsed, as many as there were
PriorLabels(serviceName) == ServiceOf(composeData, serviceName).labels
LabelsNow(serviceName) == ServiceOf(hackerrunComposeData, serviceName).labels.items

\* C14: after a successful transform the selected service has its prior
\* labels plus five, the last of them the load-balancer port label carrying
\* the chosen port; with the default port the labels are those
\* addTraefikLabels produced
C14_PortLabelCarriesChosenPort ==
    Transformed =>
        LET prior == PriorLabels(selectedService)
            now == LabelsNow(selectedService)
            count == Len(prior.items)
        IN  /\ Len(now) = count + 5
            /\ now[count + 5] = "traefik.http.services." \o selectedService
                                    \o ".loadbalancer.server.port=" \o customPort
            /\ customPort = "80" =>
                  /\ \A i \in 1..count :
                        now[i] = IF prior.kind = "map"
                                 THEN prior.items[i] \o "=" \o prior.vals[i]
                                 ELSE prior.items[i]
                  /\ RoutingLabelsAt(now, count, selectedService, domain)

Count(seq, x) == Cardinality({i \in 1..Len(seq) : seq[i] = x})
Without(seq, x) == SelectSeq(seq, LAMBDA item : item # x)
NetworkCalls == Made(<<"addTraefikNetwork">>) \/ Made(<<"addTraefikNetwork", "addTraefikNetwork">>)
EntryCount == Len(composeData.services.items)

C16_ProxyNetworkExternal ==
    (Direct /\ NetworkCalls) =>
        LET top == hackerrunComposeData.networks
        IN  /\ top.kind = "map"
            /\ Has(top.items, "traefik")
            /\ top.vals[IndexOf(top.items, "traefik")] = "{external: true}"

\* C17: two addTraefikLabels calls with the same service and domain leave the
\* service with its prior labels and then the five routing labels twice
C17_RoutingLabelsTwice ==
    (Direct /\ Made(<<"addTraefikLabels", "addTraefikLabels">>) /\ OnService
       /\ calls[1].args = calls[2].args) =>
        LET serviceName == calls[1].args[1]
            host == calls[1].args[2]
            count == Len(PriorLabels(serviceName).items)
            now == LabelsNow(serviceName)
        IN  /\ Len(now) = count + 10
            /\ RoutingLabelsAt(now, count, serviceName, host)
            /\ RoutingLabelsAt(now, count + 5, serviceName, host)

C17_Witness ==
    /\ Direct /\ Made(<<"addTraefikLabels", "addTraefikLabels">>) /\ OnService
    /\ calls[1].args = calls[2].args
    /\ Len(LabelsNow(calls[1].args[1])) = 12

\* C19: the step that runs the transform try block, whether it ends in
\* success or in the catch, leaves the parsed composeData as it was: whatever
\* the transform added is in hackerrunComposeData only
C19_SourceDocumentNeverMutated ==
    [][(cmd = "deploy" /\ pc = "TransformDocument" /\ pc' # pc) => composeData' = composeData]_vars

C19_Witness ==
    /\ TransformFailed
    /\ Len(calls) > 1
    /\ hackerrunComposeData # composeData

\* the document with env_file of every service set to [envFileName] and
\* nothing else changed
OnlyEnvFileSet(doc, envFileName) ==
    [doc EXCEPT !.services.vals =
        [i \in 1..Len(doc.services.vals) |->
            [doc.services.vals[i] EXCEPT !.env_file = List(<<envFileName>>)]]]

\* C20 as stated: addEnvFile sets env_file of every service to [fileName] and
\* changes nothing else; after a deploy's transform the derived document has
\* env_file entries exactly when an environment file was selected
C20_EnvFileIffSelected ==
    /\ (Direct /\ Made(<<"addEnvFile">>)) =>
           hackerrunComposeData = OnlyEnvFileSet(composeData, calls[1].args[1])
    /\ Transformed =>
           ((\E i \in 1..EntryCount :
                 hackerrunComposeData.services.vals[i].env_file.kind # "absent")
            <=> selectedEnvFile # Null)

\* C20 amended: addEnvFile sets env_file of every service to [fileName] and
\* changes nothing else; after a deploy's transform every service of the
\* derived document has env_file [selected file] when a file was selected,
\* and the env_file it had in the source document when none was
C20_EnvFileSetOrKept ==
    /\ (Direct /\ Made(<<"addEnvFile">>)) =>
           hackerrunComposeData = OnlyEnvFileSet(composeData, calls[1].args[1])
    /\ Transformed =>
           \A i \in 1..EntryCount :
               hackerrunComposeData.services.vals[i].env_file =
                   IF selectedEnvFile # Null THEN List(<<selectedEnvFile>>)
                   ELSE composeData.services.vals[i].env_file

C20_Witness ==
    /\ Transformed
    /\ selectedEnvFile = ".env.prod"
    /\ EntryCount = 2
    /\ composeData.services.vals[1].env_file = List(<<".env.old">>)
    /\ composeData.services.vals[2].env_file = Absent

(***************************************************************************)
(* ComposeManager.createTarArchive: the ignore rules and the filter that   *)
(* decides, path by path, what goes into the archive                       *)
(***************************************************************************)
MaxIgnoreLines == 2

IgnoreLines == {".env", " .env ", ".env*", "env", "*.env", "dist", "# local", ""}
IgnoreFiles == UNION {[1..n -> IgnoreLines] : n \in 0..MaxIgnoreLines}
OutputNames == {"hackerrun-deploy.tar.gz", "release.tar.gz"}
ProjectFiles == {".env", ".env.prod", "docker-compose.yml", "app.log", "dist", "src"}
\* how the archiver writes the paths it hands to the filter when it walks '.'
PathPrefixes == {"", "./"}

\* line.trim(), for lines padded with spaces
RECURSIVE Trim(_)
Trim(line) ==
    IF line = "" THEN ""
    ELSE IF SubSeq(line, 1, 1) = " " THEN Trim(SubSeq(line, 2, Len(line)))
    ELSE IF SubSeq(line, Len(line), Len(line)) = " " THEN Trim(SubSeq(line, 1, Len(line) - 1))
    ELSE line

\* line.startsWith('#')
StartsWithHash(line) == Len(line) >= 1 /\ SubSeq(line, 1, 1) = "#"

DefaultIgnore == <<"node_modules", ".git", "*.log", ".DS_Store">>

\* the ignore list: the defaults, then the trimmed lines of the ignore file
\* that are neither empty nor comments, and the rule '.env' taken out
IgnoreRules(lines) ==
    LET trimmed == [i \in 1..Len(lines) |-> Trim(lines[i])]
        rules == SelectSeq(trimmed, LAMBDA line : line # "" /\ ~StartsWithHash(line))
    IN  SelectSeq(DefaultIgnore \o rules, LAMBDA rule : rule # ".env")

\* pattern.replace(/\*/g, '.*')
RECURSIVE RegexSource(_)
RegexSource(pattern) ==
    IF pattern = "" THEN ""
    ELSE (IF SubSeq(pattern, 1, 1) = "*" THEN ".*" ELSE SubSeq(pattern, 1, 1))
         \o RegexSource(SubSeq(pattern, 2, Len(pattern)))

\* the regular expression from position i matches the path from position j:
\* "." is any character, ".*" any run of characters, the rest is literal
RECURSIVE MatchesFrom(_, _, _, _)
MatchesFrom(regex, i, path, j) ==
    IF i > Len(regex) THEN TRUE
    ELSE IF i < Len(regex) /\ SubSeq(regex, i, i + 1) = ".*"
         THEN \E k \in j..(Len(path) + 1) : MatchesFrom(regex, i + 2, path, k)
         ELSE /\ j <= Len(path)
              /\ SubSeq(regex, i, i) \in {".", SubSeq(path, j, j)}
              /\ MatchesFrom(regex, i + 1, path, j + 1)

\* new RegExp(source).test(path): a match anywhere in the path
RegexTest(source, path) == \E j \in 1..(Len(path) + 1) : MatchesFrom(source, 1, path, j)

\* one ignore pattern against one path
Ignored(pattern, path) ==
    IF Includes(pattern, "*") THEN RegexTest(RegexSource(pattern), path)
    ELSE Includes(path, pattern)

\* the filter callback: TRUE when the path goes into the archive
Filter(ignore, path) ==
    IF path = "hackerrun-deploy.tar.gz" THEN FALSE
    ELSE ~\E n \in 1..Len(ignore) : Ignored(ignore[n], path)

ArchiveInit ==
    /\ Init
    /\ composeFile = "ok"
    /\ envFiles = {".env", ".env.prod"}

\* createTarArchive('.', outputPath, gitignorePath): the ignore file's lines,
\* the output name and the archiver's path form are the inputs; every file of
\* the directory, the output file among them, is put to the filter
CreateTarArchive ==
    /\ cmd = "none" /\ pc = "Idle"
    /\ outputPath = ""
    /\ \E lines \in IgnoreFiles, name \in OutputNames, prefix \in PathPrefixes :
          /\ gitignore' = lines
          /\ outputPath' = name
          /\ archive' = { [file |-> file, path |-> prefix \o file,
                           kept |-> Filter(IgnoreRules(lines), prefix \o file)] :
                          file \in ProjectFiles \cup {name} }
    /\ UNCHANGED <<cmd, pc, runs, exitStatus, log, persistent, locals, documents, channel>>

ArchiveNext == CreateTarArchive

SpecArchive == ArchiveInit /\ [][ArchiveNext]_vars

\* C18: the filter keeps the file named .env whatever the ignore file says,
\* and never keeps the archive's own output file whatever its name
C18_EnvKeptOutputExcluded ==
    \A entry \in archive :
        /\ entry.file = ".env" => entry.kept
        /\ entry.file = outputPath => ~entry.kept

(***************************************************************************)
(* Properties of the provision sequence and of the bring-up                *)
(***************************************************************************)
InInit == cmd = "init"
\* this step made a call, and it failed
FailedCallStep == Len(log') = Len(log) + 1 /\ ~log'[Len(log')].ok
FatalInitSteps == {"TestConnection", "InstallEngine", "ConfigureProxy"}
ContextBlock == {"InitGetCurrentContext", "CreateContextCreate", "UseOriginal"}

\* C21: a failed connection test, a failed command of the install block and a
\* failed command of the proxy block each end the provision run at that step
\* with status 1 and the stored host address untouched, and an exited run
\* makes no further call and stores nothing
C21_ProvisionFatalSteps ==
    [][/\ (InInit /\ pc \in FatalInitSteps /\ FailedCallStep) =>
              (pc' = "Exited" /\ exitStatus' = 1 /\ configVpsIp' = configVpsIp)
       /\ (InInit /\ pc = "Exited" /\ runs' = runs) =>
              UNCHANGED <<pc, log, configVpsIp, contexts, currentContext>>]_vars

C21_Witness ==
    /\ InInit /\ pc = "Exited" /\ exitStatus = 1
    /\ LastCallIs("ssh.exec", FALSE)
    /\ log[Len(log)].arg = "compose up -d"
    /\ configVpsIp = NoIp

InstallAttempted == \E i \in Calls("ssh.exec") : \E n \in 1..Len(InstallCommands) :
                        log[i].arg = InstallCommands[n]

C24_NoRetry ==
    \A i, j \in 1..Len(log) :
        (i # j /\ log[i].call = log[j].call) =>
            (log[i].call = "ssh.exec" /\ log[i].arg # log[j].arg)

C24_Witness ==
    /\ InDeploy /\ pc = "Exited"
    /\ Failed("compose.up")
    /\ Failed("ssh.connect")
    /\ Attempted("useContext.restore")

\* C25: the tear-down is attempted right before the bring-up, the step after
\* the tear-down is the bring-up whether the tear-down succeeded or not, and
\* the tear-down step never exits
C25_TearDownThenBringUp ==
    /\ \A i \in Calls("compose.up") : i > 1 /\ log[i - 1].call = "compose.down"
    /\ (InDeploy /\ LastCallIs("compose.down", FALSE)) => (pc = "Up" /\ exitStatus = -1)
    /\ (InDeploy /\ LastCallIs("compose.down", TRUE)) => (pc = "Up" /\ exitStatus = -1)

C25_Witness ==
    /\ InDeploy
    /\ Failed("compose.down")
    /\ Succeeded("compose.up")

C26_EnvFileSelection ==
    [][(InDeploy /\ pc = "SelectEnvFile" /\ pc' # pc) =>
          /\ envFiles = {} =>
                \/ selectedEnvFile' = ".env" /\ envFiles' = {".env"}
                \/ selectedEnvFile' = Null /\ envFiles' = {}
          /\ Cardinality(envFiles) = 1 =>
                selectedEnvFile' \in envFiles /\ envFiles' = envFiles
          /\ Cardinality(envFiles) > 1 =>
                selectedEnvFile' \in envFiles \cup {Null} /\ envFiles' = envFiles
          /\ selectedEnvFile' = Null \/ selectedEnvFile' \in envFiles']_vars

C26_Witness ==
    /\ InDeploy /\ pc = "SelectService"
    /\ envFiles = {".env.prod"}
    /\ selectedEnvFile = ".env.prod"

(***************************************************************************)
(* Properties of a failing transform                                       *)
(***************************************************************************)
\* the step is one addTraefikLabels call made directly on the document
LabelCallStep ==
    /\ Direct
    /\ Len(calls') = Len(calls) + 1
    /\ calls'[Len(calls')].fn = "addTraefikLabels"

\* C29: an addTraefikLabels call whose service name is not a key of the
\* document's services throws and leaves the document as it was; a deploy
\* whose transform failed has exit status 1, has not saved the derived file
\* and has made no remote call
C29_UnknownServiceFailsCleanly ==
    [][/\ (LabelCallStep /\ ~OwnService(hackerrunComposeData, calls'[Len(calls')].args[1])) =>
             /\ calls'[Len(calls')].threw
             /\ hackerrunComposeData' = hackerrunComposeData
       /\ (cmd = "deploy" /\ pc = "TransformDocument" /\ pc' = "Exited") =>
             /\ exitStatus' = 1
             /\ hackerrunComposeFile' = NoDocument
             /\ log' = <<>>]_vars

(***************************************************************************)
(* SSHClient (src/lib/ssh.js, and the earlier connect of                   *)
(* src/unnamed/part_001).  The environment of a call is the set of private *)
(* key files readable under ~/.ssh, whether SSH_AUTH_SOCK is set, and the  *)
(* credentials the host accepts.  A promise is the sequence of resolve and *)
(* reject calls the code made on it.                                       *)
(***************************************************************************)
MaxDataEvents == 2

KeyNames == {"id_ed25519", "id_rsa"}
Credentials == KeyNames \cup {"agent"}
\* the exit code handed to the 'close' listener: a number, or null for a
\* command ended by a signal
NullCode == -1
ExitCodes == {0, 1, 127, NullCode}
StdoutChunks == {"Docker version 24", ", build 1"}
StderrChunks == {"sh: docker:", " not found"}

\* `${code}`
CodeText(code) ==
    CASE code = 0 -> "0"
      [] code = 1 -> "1"
      [] code = 127 -> "127"
      [] code = NullCode -> "null"

Resolved(value) == [how |-> "resolve", value |-> value]
Rejected(message) == [how |-> "reject", value |-> message]

\* connect of src/lib/ssh.js: the key at ~/.ssh/id_rsa when the file exists,
\* otherwise { agent: process.env.SSH_AUTH_SOCK }, set or not
AuthMethod(files) == IF "id_rsa" \in files THEN "id_rsa" ELSE "agent"

\* connect of src/unnamed/part_001: readFileSync of ~/.ssh/id_ed25519, in its
\* catch readFileSync of ~/.ssh/id_rsa, in its catch the rejection
PrivateKey(files) ==
    IF "id_ed25519" \in files THEN "id_ed25519"
    ELSE IF "id_rsa" \in files THEN "id_rsa" ELSE "none"

\* the host lets the credential in; an agent that is not there offers nothing
Accepts(credential) ==
    /\ credential \in authorized
    /\ credential = "agent" => agent = "set"

\* conn.on('ready', resolve).on('error', reject).connect({...}): an
\* unreachable host or a refused credential is the 'error' event
Handshake(file, credential, reachable) ==
    LET ready == reachable /\ Accepts(credential)
    IN  /\ promise' = [NoPromise EXCEPT
                          !.call = "connect", !.file = file, !.credential = credential,
                          !.attempted = TRUE,
                          !.settled = <<IF ready THEN Resolved("")
                                        ELSE Rejected("SSH connection failed: handshake")>>]
        /\ session' = IF ready THEN "open" ELSE session

SessionFrame ==
    UNCHANGED <<cmd, pc, runs, exitStatus, log, persistent, vpsIp, selectedEnvFile,
                selectedService, customPort, domain, originalContext, dockerInstalled,
                traefikConfig, cmdIdx, documents, archiving, keyFiles, agent, authorized>>

\* SSHClient.connect() of src/lib/ssh.js
Connect ==
    /\ cmd = "none" /\ pc = "Idle" /\ session = "none"
    /\ \E reachable \in BOOLEAN : Handshake("src/lib/ssh.js", AuthMethod(keyFiles), reachable)
    /\ SessionFrame

\* SSHClient.connect() of src/unnamed/part_001
ConnectPart001 ==
    /\ cmd = "none" /\ pc = "Idle" /\ session = "none"
    /\ LET privateKey == PrivateKey(keyFiles)
       IN  IF privateKey = "none"
           THEN /\ promise' = [NoPromise EXCEPT
                                  !.call = "connect", !.file = "src/unnamed/part_001",
                                  !.settled = <<Rejected("SSH key not found")>>]
                /\ session' = session
           ELSE \E reachable \in BOOLEAN :
                   Handshake("src/unnamed/part_001", privateKey, reachable)
    /\ SessionFrame

\* SSHClient.executeCommand(command) up to the callback of conn.exec: an
\* error rejects, a stream gets its listeners and two empty accumulators.
\* The caller awaits each command before the next.
ExecuteCommand ==
    /\ cmd = "none" /\ pc = "Idle" /\ session = "open" /\ promise.stream # "open"
    /\ \E err \in BOOLEAN :
          promise' = [NoPromise EXCEPT
                         !.call = "executeCommand", !.file = promise.file,
                         !.credential = promise.credential, !.attempted = TRUE,
                         !.stream = IF err THEN "none" ELSE "open",
                         !.settled = IF err
                                     THEN <<Rejected("Command execution failed: no channel")>>
                                     ELSE <<>>]
    /\ session' = session
    /\ SessionFrame

\* the 'data' listener of the stream: stdout += data
StdoutData ==
    /\ promise.stream = "open" /\ promise.events < MaxDataEvents
    /\ \E data \in StdoutChunks :
          promise' = [promise EXCEPT !.stdout = @ \o data, !.events = @ + 1]
    /\ session' = session
    /\ SessionFrame

\* the 'data' listener of stream.stderr: stderr += data
StderrData ==
    /\ promise.stream = "open" /\ promise.events < MaxDataEvents
    /\ \E data \in StderrChunks :
          promise' = [promise EXCEPT !.stderr = @ \o data, !.events = @ + 1]
    /\ session' = session
    /\ SessionFrame

\* mutant: the 'close' listener resolves whatever the exit code
OnCloseIgnoresCode(code, stdout, stderr) == Resolved(stdout)

\* the 'close' listener of executeCommand
OnClose(code, stdout, stderr) ==
    IF code # 0
    THEN Rejected("Command failed with code " \o CodeText(code) \o ": " \o stderr)
    ELSE Resolved(stdout)

\* the stream's one 'close' event, with the command's exit code
StreamClose ==
    /\ promise.stream = "open"
    /\ \E code \in ExitCodes :
          promise' = [promise EXCEPT
                         !.stream = "closed", !.exit = <<code>>,
                         !.settled = Append(@, OnClose(code, promise.stdout, promise.stderr))]
    /\ session' = session
    /\ SessionFrame

\* SSHClient.disconnect(): this.conn.end()
Disconnect ==
    /\ cmd = "none" /\ pc = "Idle" /\ session = "open" /\ promise.stream # "open"
    /\ session' = "closed"
    /\ promise' = promise
    /\ SessionFrame

\* a process that has built an SSHClient and is about to connect
SessionInit ==
    /\ cmd = "none"
    /\ pc = "Idle"
    /\ runs = 0
    /\ exitStatus = -1
    /\ log = <<>>
    /\ configVpsIp = ComposeHost
    /\ projectConfig = <<>>
    /\ projectWrites = 0
    /\ contexts = {"default"}
    /\ currentContext = "default"
    /\ composeFile = "ok"
    /\ envFiles = {}
    /\ vpsIp = ComposeHost
    /\ selectedEnvFile = Undefined
    /\ selectedService = Undefined
    /\ customPort = Undefined
    /\ domain = Undefined
    /\ originalContext = Undefined
    /\ dockerInstalled = FALSE
    /\ session = "none"
    /\ traefikConfig = "unread"
    /\ cmdIdx = 0
    /\ NoDocuments
    /\ NoArchive
    /\ keyFiles \in SUBSET KeyNames
    /\ agent \in {"unset", "set"}
    /\ authorized \in SUBSET Credentials
    /\ promise = NoPromise

SessionNext ==
    \/ Connect
    \/ ConnectPart001
    \/ ExecuteCommand
    \/ StdoutData
    \/ StderrData
    \/ StreamClose
    \/ Disconnect

SpecSession == SessionInit /\ [][SessionNext]_vars

(***************************************************************************)
(* Properties of SSHClient                                                 *)
(***************************************************************************)
Connected(file) == promise.call = "connect" /\ promise.file = file
Settled(how) == Len(promise.settled) = 1 /\ promise.settled[1].how = how
Executed == promise.call = "executeCommand" /\ promise.stream # "open"
Available(credential) ==
    IF credential = "agent" THEN agent = "set" ELSE credential \in keyFiles
FirstAvailable(order) ==
    IF \E i \in 1..Len(order) : Available(order[i])
    THEN order[CHOOSE i \in 1..Len(order) :
                  Available(order[i]) /\ \A j \in 1..(i - 1) : ~Available(order[j])]
    ELSE "none"
SearchOrders == { <<"id_ed25519", "id_rsa", "agent">>, <<"id_rsa", "id_ed25519", "agent">> }
\* the credential the handshake was given; an agent socket that is not set is none
Offered == IF promise.credential = "agent" /\ agent = "unset" THEN "none"
           ELSE promise.credential

\* C27: connect() of src/lib/ssh.js offers the first credential available in
\* the order primary key file, fallback key file, agent if configured,
\* whichever of the two key files is the primary one, and rejects when none
\* is available or the host refuses the one offered
C27_FixedOrderSearch ==
    Connected("src/lib/ssh.js") =>
        \E order \in SearchOrders :
            /\ Offered = FirstAvailable(order)
            /\ FirstAvailable(order) = "none" => Settled("reject")
            /\ Settled("resolve") => Offered \in authorized
            /\ Offered \notin authorized => Settled("reject")

\* C28 as stated: executeCommand resolves with the captured stdout only when
\* the exit status is 0, every other outcome is a rejection whose error
\* carries the exit status and the captured stderr, and the promise is
\* never settled twice
C28_StdoutOnlyOnZeroElseStatus ==
    /\ Len(promise.settled) <= 1
    /\ Executed =>
          /\ Settled("resolve") =>
                promise.exit = <<0>> /\ promise.settled[1].value = promise.stdout
          /\ ~Settled("resolve") =>
                /\ Settled("reject")
                /\ promise.exit # <<>>
                /\ Includes(promise.settled[1].value, CodeText(promise.exit[1]))
                /\ Includes(promise.settled[1].value, promise.stderr)

\* C28 amended: executeCommand never settles its promise twice; it resolves,
\* with the captured stdout, exactly when the command closes with exit code
\* 0; when the command closes with another code, null included, it rejects
\* with an error whose message carries that code and the captured stderr;
\* when the channel cannot be opened it rejects with an error that carries
\* neither
C28_StdoutOnlyOnZero ==
    /\ Len(promise.settled) <= 1
    /\ Executed =>
          /\ Settled("resolve") <=> promise.exit = <<0>>
          /\ Settled("resolve") => promise.settled[1].value = promise.stdout
          /\ (promise.exit # <<>> /\ promise.exit # <<0>>) =>
                /\ Settled("reject")
                /\ promise.settled[1].value =
                      "Command failed with code " \o CodeText(promise.exit[1]) \o ": "
                          \o promise.stderr
          /\ promise.exit = <<>> =>
                /\ Settled("reject")
                /\ promise.stdout = "" /\ promise.stderr = ""
                /\ ~Includes(promise.settled[1].value, "code")

C28_Witness ==
    /\ Executed
    /\ promise.exit = <<127>>
    /\ promise.stderr = "sh: docker: not found"
    /\ Settled("reject")

(***************************************************************************)
(* Properties that relate provision and deploy                             *)
(***************************************************************************)
\* the context name expected for each host address
ExpectedContext(ip) ==
    CASE ip = <<"1", ".", "2", ".", "3", ".", "4">> -> "hackerrun-1-2-3-4"
      [] ip = <<"5", ".", "6", ".", "7", ".", "8">> -> "hackerrun-5-6-7-8"
      [] OTHER -> "none"
NamedForHost(names) ==
    \A i \in 1..Len(log) : log[i].call \in names => log[i].arg = ExpectedContext(vpsIp)
ListingDone(ok) == InDeploy /\ LastCallIs("docker.context.ls", ok)

Ran(command) ==
    \E i \in Calls("ssh.exec") : log[i].arg = command /\ log[i].ok
\* the only remote call of this run that failed, if any, is the version check
OnlyVersionCheckFailed ==
    \A i \in 1..Len(log) :
        (log[i].call \in {"ssh.connect", "ssh.exec"} /\ ~log[i].ok) =>
            log[i].arg = "docker --version"

\* C32: the stored host address changes only in the last step of a provision
\* run, to the address of that run, and in that run the connection to that
\* address succeeded, the version check or the install script succeeded, and
\* the proxy stack's "up -d" succeeded; the context block need not have
\* succeeded
C32_PersistedOnlyAfterProxy ==
    [][(configVpsIp' # configVpsIp \/ (InInit /\ pc = "PersistConfig" /\ pc' # pc)) =>
          /\ InInit /\ pc = "PersistConfig" /\ pc' = "Done"
          /\ configVpsIp' = vpsIp
          /\ \E i \in Calls("ssh.connect") : log[i].arg = Str(vpsIp) /\ log[i].ok
          /\ Ran("docker --version") \/ Ran("run script")
          /\ Ran("compose up -d")
          /\ OnlyVersionCheckFailed]_vars

C32_Witness ==
    /\ InInit /\ pc = "Done" /\ configVpsIp = vpsIp
    /\ Ran("run script") /\ Ran("compose up -d")
    /\ Failed("docker.context.create")
    /\ ExpectedContext(configVpsIp) \notin contexts

\* C33: the first step of a provision run changes nothing and makes no call;
\* with a host already stored it either goes on to the address prompt or,
\* when the user declines, returns at once with status 0, the stored address,
\* the context store and the selected context as they were and no remote or
\* engine call made; a returned run does nothing more
C33_DeclinedReconfigureTouchesNothing ==
    [][/\ (InInit /\ pc = "CheckExistingConfig" /\ pc' # pc) =>
             /\ pc' \in {"CollectHostAddress", "Done"}
             /\ pc' = "Done" => configVpsIp # NoIp /\ exitStatus' = 0
             /\ log' = <<>>
             /\ UNCHANGED <<configVpsIp, contexts, currentContext, session>>
       /\ (InInit /\ pc = "Done" /\ runs' = runs) =>
             UNCHANGED <<pc, log, configVpsIp, contexts, currentContext, session>>]_vars

C33_Witness ==
    /\ InInit /\ pc = "Done" /\ exitStatus = 0
    /\ log = <<>>
    /\ configVpsIp # NoIp
    /\ ExpectedContext(configVpsIp) \in contexts

(***************************************************************************)
(* A deploy from the parsed document to the deployment record: the prompts *)
(* and the transform on documents, then the rest of deployCommand          *)
(***************************************************************************)
\* the documents of a project without top-level networks
DeployDocuments == { d \in Documents : d.networks.kind = "absent" }

\* a deploy of a provisioned host that has just parsed docker-compose.yml
DeploymentInit ==
    /\ cmd = "deploy"
    /\ pc = "SelectEnvFile"
    /\ runs = 1
    /\ exitStatus = -1
    /\ log = <<>>
    /\ configVpsIp = ComposeHost
    /\ projectConfig = <<>>
    /\ projectWrites = 0
    /\ contexts = {"default", ContextName(ComposeHost)}
    /\ currentContext = "default"
    /\ composeFile = "ok"
    /\ envFiles \in SUBSET EnvFileNames
    /\ vpsIp = ComposeHost
    /\ selectedEnvFile = Undefined
    /\ selectedService = Undefined
    /\ customPort = Undefined
    /\ domain = Undefined
    /\ originalContext = Undefined
    /\ dockerInstalled = FALSE
    /\ session = "none"
    /\ traefikConfig = "unread"
    /\ cmdIdx = 0
    /\ composeData \in DeployDocuments
    /\ hackerrunComposeData = NoDocument
    /\ services = [state |-> "uncalled", names |-> <<>>]
    /\ calls = <<>>
    /\ hackerrunComposeFile = NoDocument
    /\ NoArchive
    /\ NoChannel

DeploymentNext ==
    \/ HandleEnvFile
    \/ ListAndSelectService
    \/ TransformDocument
    \/ DeployTlsConnect
    \/ DeployTlsRead
    \/ DeployTlsWrite
    \/ DeployTlsRestart
    \/ DeployTlsDisconnect
    \/ DeployGetCurrentContext
    \/ DeployContextExists
    \/ DeployUseContext
    \/ DeployDown
    \/ DeployUp
    \/ DeployRestoreAfterFailure
    \/ DeployRestore
    \/ DeployPersist

SpecDeployment == DeploymentInit /\ [][DeploymentNext]_vars

Completed == InDeploy /\ pc = "Done"
\* the labels of entry i of the services mapping, as a sequence of strings
LabelsOf(doc, i) == LabelArray(doc.services.vals[i].labels)

\* C34: in a completed deploy the record's domain is
\* "<selectedService>.<hostAddress>.sslip.io" for the record's service and
\* the stored host address, the saved document's host-rule label of that
\* service carries the same domain, and that service, and no other, has five
\* labels more than in the parsed document
C34_RecordDomainIsLabelDomain ==
    Completed =>
        LET record == projectConfig[1]
            saved == hackerrunComposeFile
            n == IndexOf(saved.services.items, record.selectedService)
            count == Len(LabelsOf(composeData, n))
        IN  /\ record.domain = record.selectedService \o "." \o Str(configVpsIp) \o ".sslip.io"
            /\ record.vpsIp = configVpsIp
            /\ n # 0
            /\ Len(LabelsOf(saved, n)) = count + 5
            /\ LabelsOf(saved, n)[count + 2] =
                  "traefik.http.routers." \o record.selectedService \o ".rule=Host('"
                      \o record.domain \o "')"
            /\ \A i \in 1..Len(saved.services.items) :
                  i # n => saved.services.vals[i].labels = composeData.services.vals[i].labels

C34_Witness ==
    /\ Completed
    /\ projectConfig[1].selectedService = "db"
    /\ projectConfig[1].domain = "db.1.2.3.4.sslip.io"
    /\ customPort = "8080"
    /\ Len(LabelsOf(hackerrunComposeFile, 2)) = 6

====
